---- MODULE Spec2Model ----
(***************************************************************************)
(* Model of docs_gh_pages/scripts/execute_notebooks.py: the                *)
(* NotebookConverter class (execute, convert, link, unexecute) and the     *)
(* process_notebooks directory walk, over an explicit file system.         *)
(*                                                                         *)
(* A file name is a sequence of tokens (<<"executed_", "a", ".ipynb">> is  *)
(* executed_a.ipynb), a directory a sequence of components, a path a       *)
(* record [dir, name].  The file system is a function from the paths that  *)
(* exist to their content.                                                 *)
(***************************************************************************)
EXTENDS Integers, Sequences, FiniteSets, TLC

VARIABLES fs, conv, hist, pc, opts, dirsLeft, root, files, fs0, bound, visited, nbmem

vars == <<fs, conv, hist, pc, opts, dirsLeft, root, files, fs0, bound, visited, nbmem>>

(* ------------------------------ bounds --------------------------------- *)

\* number of cells of a notebook document
NCells == 2
\* number of converter calls of one behaviour of Spec
MaxCalls == 3

(* --------------------------- names and paths --------------------------- *)

Exts == {".ipynb", ".py", ".rst", ".nblink"}

DocsDir == <<"docs">>
OutDir == <<"out">>
CwdDir == <<"cwd">>
LinkDir == <<"notebooks_external">>

NoPath == [dir |-> <<>>, name |-> <<>>]

Join(d, n) == [dir |-> d, name |-> n]

\* os.path.splitext(name)[1]
Ext(name) == IF Len(name) > 1 /\ name[Len(name)] \in Exts THEN name[Len(name)] ELSE ""

\* Path.stem
Stem(name) == IF Ext(name) = "" THEN name ELSE SubSeq(name, 1, Len(name) - 1)

Exists(f, p) == p \in DOMAIN f

(* ------------------------------ documents ------------------------------ *)

NoCells == [i \in 1..NCells |-> {}]

\* a notebook document as nbformat reads and writes it
Notebook(body, flag, cells) ==
    [kind |-> "nb", flag |-> flag, cells |-> cells, body |-> body,
     link |-> NoPath, complete |-> TRUE]

\* what open(path, 'w') leaves before anything is written
Truncated ==
    [kind |-> "nb", flag |-> "none", cells |-> <<>>, body |-> "",
     link |-> NoPath, complete |-> FALSE]

\* a removal that leaves the file where it is
Remove_Nothing(f, p) == f

\* no document: the value of execute's local nb outside a call (nbmem)
NoDoc ==
    [kind |-> "none", flag |-> "none", cells |-> <<>>, body |-> "",
     link |-> NoPath, complete |-> FALSE]

\* os.remove(p)
Remove(f, p) == [q \in DOMAIN f \ {p} |-> f[q]]

OpenW(f, p) == [q \in DOMAIN f \cup {p} |-> IF q = p THEN Truncated ELSE f[q]]

WriteFile(f, p, doc) == [q \in DOMAIN f \cup {p} |-> IF q = p THEN doc ELSE f[q]]

\* with open(p, 'w') as f: nbformat.write(nb, f)
NbformatWrite(f, p, nb) == WriteFile(OpenW(f, p), p, nb)

\* shutil.copyfile(src, dst)
CopyFile(f, src, dst) == WriteFile(OpenW(f, dst), dst, f[src])

\* ClearOutputPreprocessor().preprocess(nb, {})
ClearOutput(nb) == [nb EXCEPT !.cells = [i \in DOMAIN nb.cells |-> {}]]

\* ExecutePreprocessor(allow_errors=False).preprocess: outcome 0 is a run
\* with no failing cell, outcome k > 0 a run whose cell k fails; the cells
\* after the failing one are not run
ExecutorPreprocess(nb, outcome) ==
    [nb EXCEPT !.cells = [i \in DOMAIN nb.cells |->
        IF outcome = 0 \/ i < outcome THEN {"out"}
        ELSE IF i = outcome THEN {"err"} ELSE {}]]

Outcomes == 0..NCells

(* ------------------------------ converter ------------------------------ *)

\* a constructor that gives the executed notebook the source's name in
\* both modes
NotebookConverter_SameName(nb_path, output_path, overwrite) ==
    LET nb == nb_path.name
        out == IF output_path # <<>> THEN output_path ELSE nb_path.dir
    IN [nb_path |-> nb_path,
        nb_link_path |-> LinkDir,
        nb |-> nb,
        nb_dir |-> nb_path.dir,
        nb_name |-> Stem(nb),
        overwrite |-> overwrite,
        output_path |-> out,
        colab_nb_path |-> Join(out, <<"colab_">> \o nb),
        executed_nb_path |-> Join(out, nb),
        temp_nb_path |-> IF overwrite THEN Join(out, <<"executed_">> \o nb)
                         ELSE NoPath]

\* NotebookConverter.__init__; output_path = <<>> stands for None
NotebookConverter(nb_path, output_path, overwrite) ==
    LET nb == nb_path.name
        out == IF output_path # <<>> THEN output_path ELSE nb_path.dir
    IN [nb_path |-> nb_path,
        nb_link_path |-> LinkDir,
        nb |-> nb,
        nb_dir |-> nb_path.dir,
        nb_name |-> Stem(nb),
        overwrite |-> overwrite,
        output_path |-> out,
        colab_nb_path |-> Join(out, <<"colab_">> \o nb),
        executed_nb_path |-> IF overwrite THEN Join(out, nb)
                             ELSE Join(out, <<"executed_">> \o nb),
        temp_nb_path |-> IF overwrite THEN Join(out, <<"executed_">> \o nb)
                         ELSE NoPath]

\* execute's write with the copy over the canonical path left out
WriteExecuted_NoCopy(f, c, nb) ==
    IF c.overwrite
    THEN Remove(NbformatWrite(f, c.temp_nb_path, nb), c.temp_nb_path)
    ELSE NbformatWrite(f, c.executed_nb_path, nb)

\* the write policy of execute: through the temporary file when the
\* converter overwrites, straight to the executed copy otherwise
WriteExecuted(f, c, nb) ==
    IF c.overwrite
    THEN LET f1 == NbformatWrite(f, c.temp_nb_path, nb)
             f2 == CopyFile(f1, c.temp_nb_path, c.executed_nb_path)
         IN Remove(f2, c.temp_nb_path)
    ELSE NbformatWrite(f, c.executed_nb_path, nb)

\* a skip test that takes any recorded attempt for a finished run
AlreadyExecuted_AnyFlag(nb, force) == nb.flag # "none" /\ ~force

\* a skip test with the force argument inverted
AlreadyExecuted_ForceInverted(nb, force) == nb.flag = "executed" /\ force

\* the skip test of execute
AlreadyExecuted(nb, force) == nb.flag = "executed" /\ ~force

\* a record of the outcome that is written on success only
RecordOutcome_OkOnly(nb, outcome) ==
    IF outcome = 0 THEN [nb EXCEPT !.flag = "executed"] ELSE nb

\* nb['metadata'].update(execute_dict) of the try and of the except branch
RecordOutcome(nb, outcome) ==
    [nb EXCEPT !.flag = IF outcome = 0 THEN "executed" ELSE "errored"]

\* an execute that lets the cell failure reach its caller
ExecuteOp_Reraise(f, c, force, outcome) ==
    IF ~Exists(f, c.nb_path)
    THEN [fs |-> f, ran |-> FALSE, outcome |-> "none", raised |-> "FileNotFoundError"]
    ELSE IF AlreadyExecuted(f[c.nb_path], force)
    THEN [fs |-> f, ran |-> FALSE, outcome |-> "none", raised |-> "none"]
    ELSE IF outcome # 0
    THEN [fs |-> f, ran |-> TRUE, outcome |-> "err", raised |-> "CellExecutionError"]
    ELSE [fs |-> WriteExecuted(f, c, RecordOutcome(
                    ExecutorPreprocess(ClearOutput(f[c.nb_path]), outcome), outcome)),
          ran |-> TRUE, outcome |-> "ok", raised |-> "none"]

\* NotebookConverter.execute
ExecuteOp(f, c, force, outcome) ==
    IF ~Exists(f, c.nb_path)
    THEN [fs |-> f, ran |-> FALSE, outcome |-> "none", raised |-> "FileNotFoundError"]
    ELSE LET nb == f[c.nb_path]
         IN IF AlreadyExecuted(nb, force)
            THEN [fs |-> f, ran |-> FALSE, outcome |-> "none", raised |-> "none"]
            ELSE LET cleared == ClearOutput(nb)
                     run == ExecutorPreprocess(cleared, outcome)
                     done == RecordOutcome(run, outcome)
                 IN [fs |-> WriteExecuted(f, c, done), ran |-> TRUE,
                     outcome |-> IF outcome = 0 THEN "ok" ELSE "err",
                     raised |-> "none"]

\* an unexecute that clears the outputs and keeps the flag
UnexecuteOp_KeepFlag(f, c) ==
    IF ~Exists(f, c.executed_nb_path) THEN f
    ELSE NbformatWrite(f, c.executed_nb_path, ClearOutput(f[c.executed_nb_path]))

\* NotebookConverter.unexecute
UnexecuteOp(f, c) ==
    IF ~Exists(f, c.executed_nb_path) THEN f
    ELSE LET nb == f[c.executed_nb_path]
             popped == [nb EXCEPT !.flag = "none"]
         IN NbformatWrite(f, c.executed_nb_path, ClearOutput(popped))

\* the markup document RSTExporter renders from an executed notebook
RstOf(nb) ==
    [kind |-> "rst", flag |-> nb.flag, cells |-> nb.cells, body |-> nb.body,
     link |-> NoPath, complete |-> TRUE]

\* NotebookConverter.convert; FilesWriter writes <nb_name>.rst in the
\* working directory
ConvertOp(f, c) ==
    IF ~Exists(f, c.executed_nb_path)
    THEN [fs |-> f, raised |-> "IOError"]
    ELSE [fs |-> WriteFile(f, Join(CwdDir, c.nb_name \o <<".rst">>),
                           RstOf(f[c.executed_nb_path])),
          raised |-> "none"]

\* NotebookConverter.link: the descriptor holds the path of the notebook
\* relative to the links directory
LinkOp(f, c) ==
    LET link_path == [dir |-> <<"..">> \o c.nb_path.dir, name |-> c.nb_path.name]
        link_save_path == Join(c.nb_link_path, c.nb_name \o <<".nblink">>)
    IN WriteFile(f, link_save_path,
                 [kind |-> "nblink", flag |-> "none", cells |-> <<>>, body |-> "",
                  link |-> link_path, complete |-> TRUE])

(* ------------------------- calls on one converter ---------------------- *)

Call(op, src, force, ran, outcome, raised) ==
    [op |-> op, src |-> src, force |-> force, ran |-> ran,
     outcome |-> outcome, raised |-> raised]

NoOpts == [execute |-> FALSE, force |-> FALSE, link |-> FALSE, cleanup |-> FALSE,
           filename_pattern |-> "", rst |-> FALSE, colab |-> FALSE,
           overwrite |-> TRUE, output_path |-> <<>>]

NbA == Join(DocsDir, <<"a", ".ipynb">>)

\* the notebooks a converter can be handed: never run, run by an earlier
\* pass (with or without a failing cell), or saved with outputs by hand
SourceDocs ==
    {Notebook("a", "none", NoCells),
     Notebook("a", "executed", ExecutorPreprocess(Notebook("a", "none", NoCells), 0).cells),
     Notebook("a", "errored", ExecutorPreprocess(Notebook("a", "none", NoCells), 1).cells),
     Notebook("a", "none", ExecutorPreprocess(Notebook("a", "none", NoCells), 0).cells)}

Init ==
    /\ \E doc \in SourceDocs : fs = (NbA :> doc)
    /\ \E ow \in BOOLEAN, out \in {<<>>, OutDir} : conv = NotebookConverter(NbA, out, ow)
    /\ hist = <<>>
    /\ pc = "api"
    /\ opts = NoOpts
    /\ dirsLeft = {}
    /\ root = <<>>
    /\ files = {}
    /\ fs0 = fs
    /\ bound = {}
    /\ visited = {}
    /\ nbmem = NoDoc

WalkIdle == UNCHANGED <<conv, pc, opts, dirsLeft, root, files, fs0, bound, visited, nbmem>>

Execute ==
    /\ pc = "api" /\ Len(hist) < MaxCalls
    /\ \E force \in BOOLEAN, outcome \in Outcomes :
          LET r == ExecuteOp(fs, conv, force, outcome)
          IN /\ (~r.ran => outcome = 0)
             /\ fs' = r.fs
             /\ hist' = Append(hist, Call("execute", conv.nb_path, force, r.ran,
                                          r.outcome, r.raised))
    /\ WalkIdle

Unexecute ==
    /\ pc = "api" /\ Len(hist) < MaxCalls
    /\ fs' = UnexecuteOp(fs, conv)
    /\ hist' = Append(hist, Call("unexecute", conv.nb_path, FALSE, FALSE, "none", "none"))
    /\ WalkIdle

Convert ==
    /\ pc = "api" /\ Len(hist) < MaxCalls
    /\ LET r == ConvertOp(fs, conv)
       IN /\ fs' = r.fs
          /\ hist' = Append(hist, Call("convert", conv.nb_path, FALSE, FALSE, "none", r.raised))
    /\ WalkIdle

Link ==
    /\ pc = "api" /\ Len(hist) < MaxCalls
    /\ fs' = LinkOp(fs, conv)
    /\ hist' = Append(hist, Call("link", conv.nb_path, FALSE, FALSE, "none", "none"))
    /\ WalkIdle

Next == Execute \/ Unexecute \/ Convert \/ Link

Spec == Init /\ [][Next]_vars

(* --------------------- process_notebooks: the walk --------------------- *)

\* most files a directory tree holds when the walk starts
MaxFiles == 2

SubDir == <<"docs", "sub">>
CheckpointDir == <<"docs", ".ipynb_checkpoints">>

\* the directories os.walk(DocsDir) yields
WalkDirs == {DocsDir, SubDir, CheckpointDir}

Parent(d) == SubSeq(d, 1, Len(d) - 1)

\* 'ipynb_checkpoints' in full_path
InCheckpoint(p) ==
    \/ \E i \in 1..Len(p.dir) : p.dir[i] = ".ipynb_checkpoints"
    \/ \E i \in 1..Len(p.name) : p.name[i] = ".ipynb_checkpoints"

\* name.startswith('exec')
StartsWithExec(name) == Len(name) > 0 /\ name[1] = "executed_"

\* name.startswith('colab')
StartsWithColab(name) == Len(name) > 0 /\ name[1] = "colab_"

\* re.search(filename_pattern, name), for a pattern that is one word
PatternMatches(pattern, name) ==
    pattern = "" \/ \E i \in 1..Len(name) : name[i] = pattern

\* a classification that looks at the extension before the reserved prefixes
Rule_ExtensionFirst(p) ==
    IF InCheckpoint(p) THEN "checkpoint"
    ELSE IF Ext(p.name) = ".ipynb" THEN "notebook"
    ELSE IF StartsWithExec(p.name) THEN "executed"
    ELSE IF StartsWithColab(p.name) THEN "colab"
    ELSE IF Ext(p.name) = ".rst" THEN "rst"
    ELSE IF Ext(p.name) = ".py" THEN "script"
    ELSE "other"

\* the chain of tests of the loop body: the first test that holds decides
Rule(p) ==
    IF InCheckpoint(p) THEN "checkpoint"
    ELSE IF StartsWithExec(p.name) THEN "executed"
    ELSE IF StartsWithColab(p.name) THEN "colab"
    ELSE IF Ext(p.name) = ".rst" THEN "rst"
    ELSE IF Ext(p.name) = ".ipynb" THEN "notebook"
    ELSE IF Ext(p.name) = ".py" THEN "script"
    ELSE "other"

\* sph_nb.replace_py_ipynb
ReplacePyIpynb(p) == Join(p.dir, Stem(p.name) \o <<".ipynb">>)

Script(body) ==
    [kind |-> "py", flag |-> "none", cells |-> <<>>, body |-> body,
     link |-> NoPath, complete |-> TRUE]

\* NotebookConverter.py_to_ipynb: the notebook is made from the script
\* unless it is there already
PyToIpynb(f, py_path) ==
    LET nb_path == ReplacePyIpynb(py_path)
    IN IF Exists(f, nb_path) THEN f
       ELSE WriteFile(f, nb_path, Notebook(f[py_path].body, "none", NoCells))

NoRun == [ran |-> FALSE, outcome |-> "none", raised |-> "none"]

\* construct the converter, then link, execute and unexecute as asked:
\* lines 349-358 with unexec = o.cleanup, lines 376-381 with unexec = FALSE
Dispatch(f, h, o, nb_path, outcome, unexec) ==
    LET c == NotebookConverter(nb_path, o.output_path, o.overwrite)
        f1 == IF o.link THEN LinkOp(f, c) ELSE f
        h1 == IF o.link
              THEN Append(h, Call("link", nb_path, FALSE, FALSE, "none", "none"))
              ELSE h
        e == IF o.execute THEN ExecuteOp(f1, c, o.force, outcome)
             ELSE [fs |-> f1] @@ NoRun
        h2 == IF o.execute
              THEN Append(h1, Call("execute", nb_path, o.force, e.ran, e.outcome, e.raised))
              ELSE h1
        stop == e.raised # "none"
        f3 == IF unexec /\ ~stop THEN UnexecuteOp(e.fs, c) ELSE e.fs
        h3 == IF unexec /\ ~stop
              THEN Append(h2, Call("unexecute", nb_path, FALSE, FALSE, "none", "none"))
              ELSE h2
    IN [fs |-> f3, hist |-> h3, conv |-> c, ran |-> e.ran, raised |-> e.raised]

Booleans == {TRUE, FALSE}

\* the name filters: one that matches everything, a word of the stem, and
\* one that matches the names ending in .py only (such as \.py$)
Patterns == {"", "b", ".py"}

\* the arguments of process_notebooks, rst and colab at their defaults
Options ==
    [execute : Booleans, force : Booleans, link : Booleans, cleanup : Booleans,
     filename_pattern : Patterns, rst : {FALSE}, colab : {FALSE},
     overwrite : Booleans, output_path : {<<>>, OutDir}]

\* the arguments of process_notebooks with rst and colab free and the
\* converter's keyword arguments at their defaults
MarkupOptions ==
    [execute : Booleans, force : Booleans, link : Booleans, cleanup : Booleans,
     filename_pattern : Patterns, rst : Booleans, colab : Booleans,
     overwrite : {TRUE}, output_path : {<<>>}]

Fresh(body) == Notebook(body, "none", NoCells)

Ran(body) == RecordOutcome(ExecutorPreprocess(Fresh(body), 0), 0)

Markup(body) == RstOf(Ran(body))

\* the files a documentation tree can hold when the walk starts
Candidates ==
    {<<Join(DocsDir, <<"a", ".ipynb">>), Fresh("a")>>,
     <<Join(DocsDir, <<"a", ".ipynb">>), Ran("a")>>,
     <<Join(DocsDir, <<"executed_", "a", ".ipynb">>), Ran("a")>>,
     <<Join(DocsDir, <<"colab_", "a", ".ipynb">>), Fresh("a")>>,
     <<Join(DocsDir, <<"a", ".rst">>), Markup("a")>>,
     <<Join(DocsDir, <<"b", ".py">>), Script("b")>>,
     <<Join(DocsDir, <<"b", ".ipynb">>), Fresh("b")>>,
     <<Join(DocsDir, <<"index", ".txt">>), Script("index")>>,
     <<Join(CheckpointDir, <<"a", ".ipynb">>), Fresh("a")>>,
     <<Join(SubDir, <<"a", ".ipynb">>), Fresh("a")>>}

Layouts ==
    {L \in SUBSET Candidates :
        /\ Cardinality(L) <= MaxFiles
        /\ \A x \in L, y \in L : x[1] = y[1] => x = y}

LayoutFs(L) ==
    [p \in {x[1] : x \in L} |-> (CHOOSE x \in L : x[1] = p)[2]]

NoConv == NotebookConverter(NoPath, <<>>, TRUE)

WalkInit ==
    /\ \E L \in Layouts : fs = LayoutFs(L)
    /\ opts \in Options
    /\ conv = NoConv
    /\ hist = <<>>
    /\ pc = "walk"
    /\ dirsLeft = WalkDirs
    /\ root = <<>>
    /\ files = {}
    /\ fs0 = fs
    /\ bound = {}
    /\ visited = {}
    /\ nbmem = NoDoc

\* os.walk yields the next directory, parents first, with the names of the
\* files it holds at that moment
ListDir ==
    /\ pc = "walk" /\ files = {}
    /\ \E d \in dirsLeft :
          /\ Parent(d) \notin dirsLeft
          /\ root' = d
          /\ dirsLeft' = dirsLeft \ {d}
          /\ files' = {p.name : p \in {q \in DOMAIN fs : q.dir = d}}
    /\ UNCHANGED <<fs, conv, hist, pc, opts, fs0, bound, visited, nbmem>>

\* the loop body takes the file name: what every visit does to the walk
Take(name, rule) ==
    /\ pc = "walk"
    /\ name \in files
    /\ Rule(Join(root, name)) = rule
    /\ files' = files \ {name}
    /\ visited' = visited \cup {[path |-> Join(root, name), rule |-> rule]}
    /\ UNCHANGED <<opts, dirsLeft, root, fs0, nbmem>>

\* if cleanup: os.remove(full_path); continue -- else: continue
RemoveOrSkip(name) ==
    LET p == Join(root, name)
    IN /\ IF opts.cleanup
          THEN IF Exists(fs, p)
               THEN fs' = Remove(fs, p) /\ pc' = pc
               ELSE fs' = fs /\ pc' = "raised"
          ELSE fs' = fs /\ pc' = pc
       /\ UNCHANGED <<conv, hist, bound>>

VisitCheckpoint == \E name \in files : Take(name, "checkpoint") /\ RemoveOrSkip(name)

VisitExecuted == \E name \in files : Take(name, "executed") /\ RemoveOrSkip(name)

VisitColab == \E name \in files : Take(name, "colab") /\ RemoveOrSkip(name)

VisitRst == \E name \in files : Take(name, "rst") /\ RemoveOrSkip(name)

\* what a visit that dispatches to a converter leaves behind
Dispatched(r) ==
    /\ fs' = r.fs
    /\ hist' = r.hist
    /\ conv' = r.conv
    /\ bound' = bound \cup {r.conv.nb_path}
    /\ pc' = IF r.raised # "none" THEN "raised" ELSE pc

VisitNotebook ==
    \E name \in files :
       /\ Take(name, "notebook")
       /\ IF PatternMatches(opts.filename_pattern, name)
          THEN \E outcome \in Outcomes :
                  LET r == Dispatch(fs, hist, opts, Join(root, name), outcome,
                                    opts.cleanup)
                  IN (~r.ran => outcome = 0) /\ Dispatched(r)
          ELSE UNCHANGED <<fs, conv, hist, bound, pc>>

VisitScript ==
    \E name \in files :
       /\ Take(name, "script")
       /\ LET full_path == Join(root, name)
              ipy_path == ReplacePyIpynb(full_path)
          IN IF ~PatternMatches(opts.filename_pattern, name)
             THEN UNCHANGED <<fs, conv, hist, bound, pc>>
             ELSE IF Exists(fs, ipy_path)
             THEN /\ fs' = IF ~opts.execute /\ opts.cleanup
                           THEN Remove(fs, ipy_path) ELSE fs
                  /\ UNCHANGED <<conv, hist, bound, pc>>
             ELSE \E outcome \in Outcomes :
                     LET r == Dispatch(PyToIpynb(fs, full_path), hist, opts,
                                       ipy_path, outcome, FALSE)
                     IN (~r.ran => outcome = 0) /\ Dispatched(r)

\* a file no test of the loop body holds for
VisitOther ==
    \E name \in files :
       /\ Take(name, "other")
       /\ UNCHANGED <<fs, conv, hist, bound, pc>>

\* os.walk is exhausted: process_notebooks returns
WalkReturn ==
    /\ pc = "walk" /\ files = {} /\ dirsLeft = {}
    /\ pc' = "done"
    /\ UNCHANGED <<fs, conv, hist, opts, dirsLeft, root, files, fs0, bound, visited, nbmem>>

WalkNext ==
    \/ ListDir
    \/ VisitCheckpoint
    \/ VisitExecuted
    \/ VisitColab
    \/ VisitRst
    \/ VisitNotebook
    \/ VisitScript
    \/ VisitOther
    \/ WalkReturn

WalkSpec == WalkInit /\ [][WalkNext]_vars

\* the walk with the rst and colab arguments given
MarkupInit ==
    /\ \E L \in Layouts : fs = LayoutFs(L)
    /\ opts \in MarkupOptions
    /\ conv = NoConv
    /\ hist = <<>>
    /\ pc = "walk"
    /\ dirsLeft = WalkDirs
    /\ root = <<>>
    /\ files = {}
    /\ fs0 = fs
    /\ bound = {}
    /\ visited = {}
    /\ nbmem = NoDoc

MarkupSpec == MarkupInit /\ [][WalkNext]_vars

(* ------------------ process_notebooks: a single file ------------------- *)

\* the else branch of process_notebooks: one converter, execute if asked,
\* otherwise unexecute if cleanup is asked
SingleFile(f, h, o, nb_path, outcome) ==
    LET c == NotebookConverter(nb_path, o.output_path, o.overwrite)
        e == IF o.execute THEN ExecuteOp(f, c, o.force, outcome)
             ELSE [fs |-> f] @@ NoRun
        h1 == IF o.execute
              THEN Append(h, Call("execute", nb_path, o.force, e.ran, e.outcome, e.raised))
              ELSE h
        unexec == ~o.execute /\ o.cleanup
        f2 == IF unexec THEN UnexecuteOp(e.fs, c) ELSE e.fs
        h2 == IF unexec
              THEN Append(h1, Call("unexecute", nb_path, FALSE, FALSE, "none", "none"))
              ELSE h1
    IN [fs |-> f2, hist |-> h2, conv |-> c, ran |-> e.ran, raised |-> e.raised]

FileInit ==
    /\ \E doc \in SourceDocs : fs = (NbA :> doc)
    /\ opts \in Options
    /\ conv = NoConv
    /\ hist = <<>>
    /\ pc = "file"
    /\ dirsLeft = {}
    /\ root = <<>>
    /\ files = {}
    /\ fs0 = fs
    /\ bound = {}
    /\ visited = {}
    /\ nbmem = NoDoc

\* process_notebooks(NbA, ...): the path is no directory
ProcessFile ==
    /\ pc = "file"
    /\ \E outcome \in Outcomes :
          LET r == SingleFile(fs, hist, opts, NbA, outcome)
          IN /\ (~r.ran => outcome = 0)
             /\ fs' = r.fs
             /\ hist' = r.hist
             /\ conv' = r.conv
             /\ bound' = bound \cup {NbA}
             /\ pc' = IF r.raised # "none" THEN "raised" ELSE "returned"
    /\ UNCHANGED <<opts, dirsLeft, root, files, fs0, visited, nbmem>>

FileNext == ProcessFile

FileSpec == FileInit /\ [][FileNext]_vars

(* -------------------- properties of one converter ---------------------- *)

N == Len(hist)

Last == hist[Len(hist)]

\* the step is a call of execute
ExecuteStep == Len(hist') = Len(hist) + 1 /\ hist'[Len(hist')].op = "execute"

FlagAt(f, p) == IF Exists(f, p) THEN f[p].flag ELSE "absent"

Cleared(doc) == \A i \in DOMAIN doc.cells : doc.cells[i] = {}

\* a complete notebook document: every cell is there, nothing is cut short
Complete(doc) == doc.kind = "nb" /\ doc.complete /\ DOMAIN doc.cells = 1..NCells

\* the calls before call j since call i are neither execute nor unexecute
Between(i, j) == \A k \in (i + 1)..(j - 1) : hist[k].op \notin {"execute", "unexecute"}

\* C1: execute(force=false) of a notebook whose flag, read from the source
\* path, is "executed" does not call the executor and leaves every file as
\* it was.
C1_SkipChangesNothing ==
    [][(/\ ExecuteStep
        /\ ~hist'[Len(hist')].force
        /\ FlagAt(fs, hist'[Len(hist')].src) = "executed")
       => (fs' = fs /\ ~hist'[Len(hist')].ran)]_vars

C1_Witness ==
    /\ pc = "api" /\ N >= 2
    /\ hist[N - 1].op = "execute" /\ hist[N - 1].ran /\ hist[N - 1].outcome = "ok"
    /\ Last.op = "execute" /\ ~Last.force /\ ~Last.ran
    /\ FlagAt(fs, conv.nb_path) = "executed"

\* C2: for every configuration, after an execute whose run succeeded the
\* next execute(force=false), with no unexecute in between, does not call
\* the executor.
C2_ReexecuteIsSkipped ==
    pc = "api" =>
    \A i \in 1..N, j \in 1..N :
        (/\ i < j /\ Between(i, j)
         /\ hist[i].op = "execute" /\ hist[i].ran /\ hist[i].outcome = "ok"
         /\ hist[j].op = "execute" /\ ~hist[j].force)
        => ~hist[j].ran

\* C3: when execute runs the executor and the run succeeds, the notebook at
\* the executed-notebook path is flagged "executed" and no error reaches the
\* caller.
C3_SuccessIsRecorded ==
    (pc = "api" /\ N >= 1 /\ Last.op = "execute" /\ Last.ran /\ Last.outcome = "ok")
    => (/\ Last.raised = "none"
        /\ FlagAt(fs, conv.executed_nb_path) = "executed")

C3_Witness ==
    /\ pc = "api" /\ N = 1
    /\ Last.op = "execute" /\ Last.ran /\ Last.outcome = "ok" /\ Last.raised = "none"
    /\ fs0[conv.nb_path].flag = "none"
    /\ FlagAt(fs, conv.executed_nb_path) = "executed"

\* C4: when the run raises the cell-failure error, execute returns normally
\* and the notebook at the executed-notebook path is flagged "errored" and
\* is a complete document.
C4_FailureIsRecorded ==
    (pc = "api" /\ N >= 1 /\ Last.op = "execute" /\ Last.ran /\ Last.outcome = "err")
    => (/\ Last.raised = "none"
        /\ FlagAt(fs, conv.executed_nb_path) = "errored"
        /\ Complete(fs[conv.executed_nb_path]))

C4_Witness ==
    /\ pc = "api" /\ N = 1
    /\ Last.op = "execute" /\ Last.ran /\ Last.outcome = "err" /\ Last.raised = "none"
    /\ FlagAt(fs, conv.executed_nb_path) = "errored"
    /\ \E i \in 1..NCells : fs[conv.executed_nb_path].cells[i] = {"err"}

C6_FailedIsSkipped ==
    pc = "api" =>
    \A i \in 1..N, j \in 1..N :
        (/\ i < j /\ Between(i, j)
         /\ hist[i].op = "execute" /\ hist[i].ran /\ hist[i].outcome = "err"
         /\ hist[j].op = "execute" /\ ~hist[j].force)
        => ~hist[j].ran

\* C6 as amended: after an execute whose run failed, the next
\* execute(force=false) calls the executor again unless the source notebook
\* itself is flagged "executed"; a converter whose executed-notebook path is
\* the source path always runs it again.
C6_FailedIsRetried ==
    [][(/\ ExecuteStep /\ ~hist'[Len(hist')].force
        /\ N >= 1 /\ Last.op = "execute" /\ Last.ran /\ Last.outcome = "err")
       => (/\ hist'[Len(hist')].ran <=> FlagAt(fs, conv.nb_path) # "executed"
           /\ conv.executed_nb_path = conv.nb_path => hist'[Len(hist')].ran)]_vars

C6_Witness ==
    /\ pc = "api" /\ N = 2
    /\ hist[1].op = "execute" /\ hist[1].ran /\ hist[1].outcome = "err"
    /\ hist[2].op = "execute" /\ ~hist[2].force /\ hist[2].ran /\ hist[2].outcome = "err"
    /\ FlagAt(fs, conv.executed_nb_path) = "errored"

\* C7: for a notebook with no outputs to begin with, execute followed by
\* unexecute on the same converter leaves, at the executed-notebook path, a
\* document with no output in any cell and no docs_executed key, whether the
\* run succeeded or failed.
C7_UnexecuteClears ==
    (/\ pc = "api" /\ N >= 2
     /\ Cleared(fs0[conv.nb_path])
     /\ hist[N - 1].op = "execute" /\ Last.op = "unexecute")
    => (/\ Exists(fs, conv.executed_nb_path)
        /\ fs[conv.executed_nb_path].flag = "none"
        /\ Cleared(fs[conv.executed_nb_path])
        /\ Complete(fs[conv.executed_nb_path]))

C7_Witness ==
    /\ pc = "api" /\ N = 2
    /\ Cleared(fs0[conv.nb_path])
    /\ hist[1].op = "execute" /\ hist[1].ran /\ hist[1].outcome = "err"
    /\ Last.op = "unexecute"
    /\ FlagAt(fs, conv.executed_nb_path) = "none"
    /\ Cleared(fs[conv.executed_nb_path])

\* C17: when overwrite-in-place is not configured, execute writes only the
\* distinctly named executed copy: the source notebook file is unchanged by
\* execute, after a successful and after a failed run, and by a following
\* unexecute.
C17_SourceUntouched ==
    (pc = "api" /\ ~conv.overwrite) =>
    /\ Exists(fs, conv.nb_path)
    /\ fs[conv.nb_path] = fs0[conv.nb_path]
    /\ conv.executed_nb_path.name = <<"executed_">> \o conv.nb
    /\ (\A k \in 1..N : hist[k].op \in {"execute", "unexecute"})
       => DOMAIN fs \subseteq {conv.nb_path, conv.executed_nb_path}

C17_Witness ==
    /\ pc = "api" /\ ~conv.overwrite /\ N = 3
    /\ hist[1].op = "execute" /\ hist[1].ran /\ hist[1].outcome = "ok"
    /\ hist[2].op = "execute" /\ hist[2].ran /\ hist[2].outcome = "err"
    /\ hist[3].op = "unexecute"
    /\ ~Cleared(fs[conv.nb_path])
    /\ FlagAt(fs, conv.executed_nb_path) = "none"

\* C8: convert on a converter bound to a fresh notebook, before any execute,
\* fails with IOError and writes no markup file, in every configuration.
C8_ConvertNeedsExecute ==
    (/\ pc = "api" /\ N >= 1
     /\ fs0[conv.nb_path].flag = "none" /\ Cleared(fs0[conv.nb_path])
     /\ \A k \in 1..N : hist[k].op # "execute"
     /\ Last.op = "convert")
    => (/\ Last.raised = "IOError"
        /\ ~Exists(fs, Join(CwdDir, conv.nb_name \o <<".rst">>)))

(* ----------------------- properties of the walk ------------------------ *)

\* process(dir, execute=True) with every other option left at its default
ExecuteDefaults ==
    [execute |-> TRUE, force |-> FALSE, link |-> FALSE, cleanup |-> FALSE,
     filename_pattern |-> "", rst |-> FALSE, colab |-> FALSE,
     overwrite |-> TRUE, output_path |-> <<>>]

\* C9: in a directory walk a file whose name begins with the executed
\* prefix is never bound to a converter and never the source of a link,
\* execute or unexecute call, whatever the name filter and the options; each
\* visited file is decided by one rule, the first of the precedence order
\* that applies, which for such a file is the checkpoint or the executed
\* prefix rule.
C9_ExecutedNeverSource ==
    pc \in {"walk", "done", "raised"} =>
    /\ \A b \in bound : ~StartsWithExec(b.name)
    /\ \A i \in 1..N : ~StartsWithExec(hist[i].src.name)
    /\ \A v \in visited, w \in visited : v.path = w.path => v.rule = w.rule
    /\ \A v \in visited :
          /\ StartsWithExec(v.path.name) => v.rule \in {"checkpoint", "executed"}
          /\ v.rule = "executed" <=> (~InCheckpoint(v.path) /\ StartsWithExec(v.path.name))
          /\ v.rule = "notebook" =>
                /\ Ext(v.path.name) = ".ipynb"
                /\ ~InCheckpoint(v.path)
                /\ ~StartsWithExec(v.path.name)
                /\ ~StartsWithColab(v.path.name)

C9_Witness ==
    /\ pc = "done"
    /\ opts.execute /\ opts.filename_pattern = ""
    /\ \E v \in visited : StartsWithExec(v.path.name) /\ v.rule = "executed"
    /\ \E i \in 1..N : hist[i].op = "execute" /\ hist[i].ran
    /\ bound # {}

\* C10: process(dir, execute=True), cleanup not requested, executes each
\* unexecuted source notebook (a successful run leaves its flag "executed")
\* and leaves every file whose name begins with the executed prefix present
\* and unchanged when the walk ends, whatever else the directory holds.
C10_ExecutedFilesUntouched ==
    (pc = "done" /\ opts = ExecuteDefaults) =>
    /\ \A p \in DOMAIN fs0 :
          StartsWithExec(p.name) => (Exists(fs, p) /\ fs[p] = fs0[p])
    /\ \A p \in DOMAIN fs0 :
          (Rule(p) = "notebook" /\ fs0[p].flag = "none") =>
             \E i \in 1..N :
                /\ hist[i].op = "execute" /\ hist[i].src = p /\ hist[i].ran
                /\ hist[i].outcome = "ok" => FlagAt(fs, p) = "executed"

\* process(dir, execute=False, cleanup=True), the other options that the
\* cleanup reads left at their defaults
CleanupDefaults ==
    /\ ~opts.execute /\ opts.cleanup
    /\ opts.filename_pattern = "" /\ opts.overwrite /\ opts.output_path = <<>>

InTree(p) == p.dir \in WalkDirs

\* C11: process(dir, execute=False, cleanup=True) finishes, and then every
\* notebook of the directory that an earlier pass executed has no cell
\* outputs and no docs_executed key, and no file with the .rst extension or
\* a name beginning with the cloud-copy or executed prefix is left in the
\* tree.
C11_CleanupLeavesNothing ==
    (pc \in {"walk", "done", "raised"} /\ CleanupDefaults) =>
    /\ pc # "raised"
    /\ pc = "done" =>
          /\ \A p \in DOMAIN fs0 :
                (Rule(p) = "notebook" /\ fs0[p].flag # "none" /\ Exists(fs, p))
                => (fs[p].flag = "none" /\ Cleared(fs[p]))
          /\ \A p \in DOMAIN fs :
                InTree(p) => /\ Ext(p.name) # ".rst"
                             /\ ~StartsWithExec(p.name)
                             /\ ~StartsWithColab(p.name)

C11_Witness ==
    /\ pc = "done" /\ CleanupDefaults
    /\ \E p \in DOMAIN fs0 :
          /\ Rule(p) = "notebook" /\ fs0[p].flag = "executed" /\ ~Cleared(fs0[p])
          /\ Exists(fs, p) /\ fs[p].flag = "none" /\ Cleared(fs[p])
    /\ \E q \in DOMAIN fs0 :
          /\ Ext(q.name) = ".rst" \/ StartsWithExec(q.name) \/ StartsWithColab(q.name)
          /\ ~Exists(fs, q)

\* C12: in a directory walk unexecute is called only if cleanup was asked
\* for and execute was not, and the calls on one notebook come in the order
\* link, execute, unexecute; so with execute=True and cleanup=True a
\* notebook that ran successfully is still flagged "executed" at the end.
C12_UnexecuteOnlyWithoutExecute ==
    pc \in {"walk", "done", "raised"} =>
    /\ \A i \in 1..N : hist[i].op = "unexecute" => (opts.cleanup /\ ~opts.execute)
    /\ \A i \in 1..N, j \in 1..N :
          (i < j /\ hist[i].src = hist[j].src)
          => <<hist[i].op, hist[j].op>> \in
                {<<"link", "execute">>, <<"link", "unexecute">>, <<"execute", "unexecute">>}

\* C14: in process(dir, execute=True) a cell failure in one notebook does
\* not stop the batch: the failure is recorded as "errored", every notebook
\* of the walk that matches the filter is still visited and executed, and
\* process returns normally.
C14_FailureDoesNotStopWalk ==
    (pc \in {"walk", "done", "raised"} /\ opts.execute /\ ~opts.cleanup) =>
    /\ pc # "raised"
    /\ \A i \in 1..N : hist[i].raised = "none"
    /\ (N >= 1 /\ Last.op = "execute" /\ Last.outcome = "err")
       => FlagAt(fs, conv.executed_nb_path) = "errored"
    /\ pc = "done" =>
          \A p \in DOMAIN fs0 :
             (Rule(p) = "notebook" /\ PatternMatches(opts.filename_pattern, p.name))
             => \E i \in 1..N :
                   /\ hist[i].op = "execute" /\ hist[i].src = p
                   /\ (fs0[p].flag # "executed" \/ opts.force) => hist[i].ran

C14_Witness ==
    /\ pc = "done" /\ opts.execute /\ ~opts.cleanup
    /\ \E i \in 1..N, j \in 1..N :
          /\ i < j /\ hist[i].src # hist[j].src
          /\ hist[i].op = "execute" /\ hist[i].ran /\ hist[i].outcome = "err"
          /\ hist[j].op = "execute" /\ hist[j].ran /\ hist[j].outcome = "ok"
          /\ FlagAt(fs, hist[i].src) = "errored"
          /\ FlagAt(fs, hist[j].src) = "executed"

\* the calls of execute, in hist, on the notebook at p
ExecuteCalls(p) == {i \in 1..N : hist[i].op = "execute" /\ hist[i].src = p}

\* C18: in one process(dir, execute=True) pass, for every literate script
\* that matches the name filter the notebook derived from it is executed
\* exactly once: by its own visit if it exists already, at the script's
\* visit if it has to be materialized, and never twice.
C18_ScriptNotebookOnce ==
    (pc = "done" /\ opts.execute) =>
    \A p \in DOMAIN fs0 :
       (Rule(p) = "script" /\ PatternMatches(opts.filename_pattern, p.name))
       => Cardinality(ExecuteCalls(ReplacePyIpynb(p))) = 1

\* the descriptor link() writes for the notebook at p
DescriptorOf(p) == Join(LinkDir, Stem(p.name) \o <<".nblink">>)

\* C19: after process(dir, link=True) there is one link descriptor per
\* linked notebook: for every notebook link() was called on, <stem>.nblink
\* exists and its path field is the relative path to that notebook, also
\* when two linked notebooks of different subdirectories share a stem.
C19_OneDescriptorPerNotebook ==
    (pc = "done" /\ opts.link) =>
    \A i \in 1..N :
       hist[i].op = "link" =>
          /\ Exists(fs, DescriptorOf(hist[i].src))
          /\ fs[DescriptorOf(hist[i].src)].link =
                [dir |-> <<"..">> \o hist[i].src.dir, name |-> hist[i].src.name]

\* C20: a cleanup pass, process(dir, execute=False, cleanup=True), only
\* removes or blanks files: it never creates a notebook file that was not
\* there before it, also in a directory that holds a literate script with
\* no materialized notebook (and so a second pass finds the files the first
\* one left).
C20_CleanupCreatesNothing ==
    (pc = "done" /\ ~opts.execute /\ opts.cleanup) =>
    \A p \in DOMAIN fs : Ext(p.name) = ".ipynb" => Exists(fs0, p)

(* ------------------- execute, one file operation at a time ------------- *)

\* where an execute call can be between two file operations
Writing ==
    {"open_temp", "write_temp", "open_copy", "write_copy", "remove_temp",
     "open_executed", "write_executed"}

StepInit ==
    /\ \E doc \in SourceDocs : fs = (NbA :> doc)
    /\ \E ow \in BOOLEAN, out \in {<<>>, OutDir} : conv = NotebookConverter(NbA, out, ow)
    /\ hist = <<>>
    /\ pc = "ready"
    /\ opts = NoOpts
    /\ dirsLeft = {}
    /\ root = <<>>
    /\ files = {}
    /\ fs0 = fs
    /\ bound = {}
    /\ visited = {}
    /\ nbmem = NoDoc

StepFrame == UNCHANGED <<conv, opts, dirsLeft, root, files, fs0, bound, visited>>

\* execute up to its first write: read the notebook, skip or run it
ExecuteRun ==
    /\ pc = "ready"
    /\ \E force \in BOOLEAN, outcome \in Outcomes :
          LET src == fs[conv.nb_path]
              skip == AlreadyExecuted(src, force)
          IN /\ (skip => outcome = 0)
             /\ nbmem' = IF skip THEN NoDoc
                      ELSE RecordOutcome(ExecutorPreprocess(ClearOutput(src), outcome),
                                         outcome)
             /\ hist' = Append(hist, Call("execute", conv.nb_path, force, ~skip,
                                          IF skip THEN "none"
                                          ELSE IF outcome = 0 THEN "ok" ELSE "err",
                                          "none"))
             /\ pc' = IF skip THEN "returned"
                      ELSE IF conv.overwrite THEN "open_temp" ELSE "open_executed"
    /\ fs' = fs
    /\ StepFrame

\* a file operation of execute's write sequence
FileStep(at, next, f) ==
    /\ pc = at
    /\ fs' = f
    /\ pc' = next
    /\ UNCHANGED <<hist, nbmem>>
    /\ StepFrame

\* with open(self.temp_nb_path, 'w')
OpenTemp == FileStep("open_temp", "write_temp", OpenW(fs, conv.temp_nb_path))

\* nbformat.write(nb, f)
WriteTemp == FileStep("write_temp", "open_copy", WriteFile(fs, conv.temp_nb_path, nbmem))

\* shutil.copyfile opens the canonical path for writing
OpenCopy == FileStep("open_copy", "write_copy", OpenW(fs, conv.executed_nb_path))

\* shutil.copyfile copies the temporary file's content
WriteCopy ==
    FileStep("write_copy", "remove_temp",
             WriteFile(fs, conv.executed_nb_path, fs[conv.temp_nb_path]))

\* os.remove(self.temp_nb_path)
RemoveTemp == FileStep("remove_temp", "returned", Remove(fs, conv.temp_nb_path))

\* with open(self.executed_nb_path, 'w')
OpenExecuted ==
    FileStep("open_executed", "write_executed", OpenW(fs, conv.executed_nb_path))

\* nbformat.write(nb, f)
WriteExecutedCopy ==
    FileStep("write_executed", "returned", WriteFile(fs, conv.executed_nb_path, nbmem))

\* the process is killed between two file operations
Interrupt ==
    /\ pc \in Writing
    /\ pc' = "killed"
    /\ UNCHANGED <<fs, hist, nbmem>>
    /\ StepFrame

StepNext ==
    \/ ExecuteRun
    \/ OpenTemp
    \/ WriteTemp
    \/ OpenCopy
    \/ WriteCopy
    \/ RemoveTemp
    \/ OpenExecuted
    \/ WriteExecutedCopy
    \/ Interrupt

StepSpec == StepInit /\ [][StepNext]_vars

\* C16: in overwrite-in-place mode, wherever execute's write sequence is
\* interrupted, the canonical notebook path never holds a half-written
\* document: it holds the complete previous content or the complete new
\* content (or, as before the call, nothing).
C16_CanonicalNeverPartial ==
    (pc \in Writing \cup {"killed", "returned"} /\ conv.overwrite) =>
    LET p == conv.executed_nb_path
    IN IF Exists(fs, p)
       THEN /\ Complete(fs[p])
            /\ fs[p] = nbmem \/ (Exists(fs0, p) /\ fs[p] = fs0[p])
       ELSE ~Exists(fs0, p)

(* --------------------- properties of a single file --------------------- *)

OpsOf(h) == [i \in 1..Len(h) |-> h[i].op]

\* C13: given a single notebook file, process runs the per-file logic of
\* the directory walk: for every combination of execute, force, link and
\* cleanup the converter operations invoked on the file are those the walk
\* invokes when it visits that file (a file the name filter lets through).
C13_SingleFileAsWalk ==
    (pc = "returned" /\ PatternMatches(opts.filename_pattern, NbA.name))
    => OpsOf(hist) = OpsOf(Dispatch(fs0, <<>>, opts, NbA, 0, opts.cleanup).hist)

(* ----------------- properties of the rst and colab options ------------- *)

\* C15: with rst=True the walk invokes convert on each notebook it
\* processes, after execute, and with colab=True it invokes append on each
\* such notebook; with the option false the operation is not invoked.
C15_MarkupOptionsDispatch ==
    pc = "done" =>
    \A b \in bound :
       /\ opts.rst <=> \E i \in 1..N : hist[i].op = "convert" /\ hist[i].src = b
       /\ opts.colab <=> \E i \in 1..N : hist[i].op = "append" /\ hist[i].src = b

====
